---- MODULE Spec2Model ----
(***************************************************************************)
(* Model of MapPointSelector (src/src/map_point_selector.py): the route    *)
(* data model (routes, currentRouteId, nextRouteId), the route selector    *)
(* combo box whose currentIndexChanged signal drives changeRoute, the      *)
(* inbound bridge events, the YAML import, and the JavaScript commands     *)
(* each handler issues to the map page.                                    *)
(*                                                                         *)
(* Python values are modelled as follows.  Numbers (ids, coordinates) are  *)
(* integers.  A value that may be None (dict.get, QComboBox.itemData) is   *)
(* an option: <<>> for None and <<v>> for the value v.  A point stored in  *)
(* a route is the tuple <<marker_id, lat, lng>>.  A dict read from YAML    *)
(* is a function whose DOMAIN is the set of keys present.                  *)
(***************************************************************************)
EXTENDS Integers, Sequences, FiniteSets, TLC

VARIABLES
    routes,          \* self.routes: route id -> [id, color, points]
    currentRouteId,  \* self.currentRouteId
    nextRouteId,     \* self.nextRouteId
    comboItems,      \* self.routeComboBox: the item data (route ids), in order
    comboIndex,      \* self.routeComboBox.currentIndex(), -1 when empty
    cmds,            \* runJavaScript calls issued by the last handler, in order
    announced,       \* the <<route_id, color>> of the addRoute calls issued since
                     \* the last clearAllRoutes call, in order
    surfaceRoute,    \* the argument of the last setCurrentRoute call
    last             \* the last handler that ran, with its arguments

vars == <<routes, currentRouteId, nextRouteId, comboItems, comboIndex, cmds,
          announced, surfaceRoute, last>>

(***************************************************************************)
(* Bounds of the model.                                                    *)
(***************************************************************************)
\* nextRouteId plus the number of points held by the store never exceeds this
MaxSize == 4

\* Arguments of the bridge events.  99 is a route id that is never a key.
EventCoords == {<<1, 2>>, <<3, 0>>}
EventMarkerIds == {0, 1}
EventRouteIds == {0, 1, 99}

(***************************************************************************)
(* Program constants and Python helpers.                                   *)
(***************************************************************************)
colors == <<"red", "blue", "green", "orange", "purple", "cyan", "magenta">>

\* a palette lookup by the number after the route id
PaletteColorNext(route_id) == colors[((route_id + 1) % Len(colors)) + 1]

\* self.colors[route_id % len(self.colors)]
PaletteColor(route_id) == colors[(route_id % Len(colors)) + 1]

None == <<>>
Some(v) == <<v>>

\* d.get(k)
Get(d, k) == IF k \in DOMAIN d THEN Some(d[k]) ELSE None

\* d.get(k, default), on plain values
GetOr(d, k, default) == IF k \in DOMAIN d THEN d[k] ELSE default

\* Python truthiness of an optional number: None and 0 are falsy
Truthy(x) == x # None /\ x[1] # 0

\* a or b
PyOr(a, b) == IF Truthy(a) THEN a ELSE b

\* {'id': route_id, 'color': color, 'points': []}
EmptyRoute(route_id, color) == [id |-> route_id, color |-> color, points |-> <<>>]

\* the dict d with d[k] = v stored
Store(d, k, v) == [x \in DOMAIN d \cup {k} |-> IF x = k THEN v ELSE d[x]]

RECURSIVE SumLen(_, _)
SumLen(rs, ids) ==
    IF ids = {} THEN 0
    ELSE LET i == CHOOSE x \in ids : TRUE
         IN  Len(rs[i].points) + SumLen(rs, ids \ {i})

\* number of points held by the store
TotalPoints(rs) == SumLen(rs, DOMAIN rs)

\* what MaxSize bounds
Size(rs, next) == next + TotalPoints(rs)

(***************************************************************************)
(* JavaScript commands (runJavaScript).                                    *)
(***************************************************************************)
JsSetCurrentRoute(route_id) == [cmd |-> "setCurrentRoute", route_id |-> route_id]
JsAddRoute(route_id, color) == [cmd |-> "addRoute", route_id |-> route_id, color |-> color]
\* an addMarkerToRoute call with the coordinates in the other order
JsAddMarkerToRouteSwapped(route_id, marker_id, lat, lng) ==
    [cmd |-> "addMarkerToRoute", route_id |-> route_id, marker_id |-> marker_id,
     lat |-> lng, lng |-> lat]

JsAddMarkerToRoute(route_id, marker_id, lat, lng) ==
    [cmd |-> "addMarkerToRoute", route_id |-> route_id, marker_id |-> marker_id,
     lat |-> lat, lng |-> lng]
JsClearCurrentRoute(route_id) == [cmd |-> "clearCurrentRoute", route_id |-> route_id]
JsClearAllRoutes == [cmd |-> "clearAllRoutes"]

(***************************************************************************)
(* The history of the runJavaScript calls: what the map page has been told.*)
(***************************************************************************)
\* the routes announced after the call c: clearAllRoutes() forgets them,
\* addRoute(route_id, color) adds one
Announce(ann, c) ==
    IF c.cmd = "clearAllRoutes" THEN <<>>
    ELSE IF c.cmd = "addRoute" THEN Append(ann, <<c.route_id, c.color>>)
    ELSE ann

\* the routes announced after the calls cs, issued in this order
RECURSIVE Announced(_, _)
Announced(ann, cs) ==
    IF cs = <<>> THEN ann ELSE Announced(Announce(ann, Head(cs)), Tail(cs))

\* the argument of the last setCurrentRoute call after the calls cs
RECURSIVE LastSetCurrentRoute(_, _)
LastSetCurrentRoute(cur, cs) ==
    IF cs = <<>> THEN cur
    ELSE LET c == cs[Len(cs)]
         IN  IF c.cmd = "setCurrentRoute" THEN c.route_id
             ELSE LastSetCurrentRoute(cur, SubSeq(cs, 1, Len(cs) - 1))

(***************************************************************************)
(* The route selector.                                                     *)
(***************************************************************************)
\* self.routeComboBox.itemData(index): None for an index out of range
ItemData(items, index) ==
    IF index \in 0 .. (Len(items) - 1) THEN Some(items[index + 1]) ELSE None

\* a changeRoute that falls back to the default route 0 for an index without
\* item data
ChangeRouteIdReset(items, index, cur) ==
    LET route_id == ItemData(items, index)
    IN  IF route_id # None THEN route_id[1] ELSE 0

\* changeRoute(index), the slot of currentIndexChanged: the new currentRouteId
ChangeRouteId(items, index, cur) ==
    LET route_id == ItemData(items, index)
    IN  IF route_id # None THEN route_id[1] ELSE cur

\* a changeRoute that tells the map page nothing
ChangeRouteCmdsNone(items, index) == <<>>

\* changeRoute(index): the commands it issues
ChangeRouteCmds(items, index) ==
    LET route_id == ItemData(items, index)
    IN  IF route_id # None THEN <<JsSetCurrentRoute(route_id[1])>> ELSE <<>>

\* changeRoute(index) has no raise statement: an index without item data is
\* passed over in silence
ChangeRouteRaised(items, index) == FALSE

\* one run of the slot changeRoute(index), as last records it: whether
\* the index had item data, whether currentRouteId kept its value and whether
\* an exception was raised
SlotCall(items, index, cur) ==
    [index  |-> index,
     known  |-> ItemData(items, index) # None,
     kept   |-> ChangeRouteId(items, index, cur) = cur,
     raised |-> ChangeRouteRaised(items, index)]

(***************************************************************************)
(* Init: the state after MapPointSelector.__init__.  The first combo item  *)
(* is added before currentIndexChanged is connected, so changeRoute does   *)
(* not run during construction.                                            *)
(***************************************************************************)
Init ==
    /\ routes = (0 :> EmptyRoute(0, colors[1]))
    /\ currentRouteId = 0
    /\ nextRouteId = 1
    /\ comboItems = <<0>>
    /\ comboIndex = 0
    /\ cmds = <<JsSetCurrentRoute(0), JsAddRoute(0, colors[1])>>
    /\ announced = Announced(<<>>, cmds)
    /\ surfaceRoute = LastSetCurrentRoute(0, cmds)
    /\ last = [op |-> "init"]

(***************************************************************************)
(* newRoute: the "New Route" button.                                       *)
(***************************************************************************)
\* a newRoute that forgets to store the route it announces
NewRouteRoutesLost(rs, route_id, color) == rs

\* self.routes[route_id] = {'id': route_id, 'color': color, 'points': []}
NewRouteRoutes(rs, route_id, color) == Store(rs, route_id, EmptyRoute(route_id, color))

newRoute ==
    /\ Size(routes, nextRouteId) < MaxSize
    /\ LET route_id == nextRouteId
           color    == PaletteColor(route_id)
           items    == Append(comboItems, route_id)
           index    == Len(items) - 1
           \* setCurrentIndex emits currentIndexChanged when the index changes
           emits    == index # comboIndex
       IN  /\ nextRouteId' = nextRouteId + 1
           /\ routes' = NewRouteRoutes(routes, route_id, color)
           /\ comboItems' = items
           /\ comboIndex' = index
           /\ currentRouteId' =
                 IF emits THEN ChangeRouteId(items, index, currentRouteId)
                 ELSE currentRouteId
           /\ cmds' = (IF emits THEN ChangeRouteCmds(items, index) ELSE <<>>)
                      \o <<JsAddRoute(route_id, color), JsSetCurrentRoute(route_id)>>
           /\ announced' = Announced(announced, cmds')
           /\ surfaceRoute' = LastSetCurrentRoute(surfaceRoute, cmds')
           /\ last' = [op |-> "newRoute",
                       slots |-> IF emits THEN <<SlotCall(items, index, currentRouteId)>>
                                 ELSE <<>>]

(***************************************************************************)
(* changeRoute: the user picks another item of the route selector.         *)
(***************************************************************************)
changeRoute ==
    \E index \in 0 .. (Len(comboItems) - 1) :
        /\ index # comboIndex
        /\ comboIndex' = index
        /\ currentRouteId' = ChangeRouteId(comboItems, index, currentRouteId)
        /\ cmds' = ChangeRouteCmds(comboItems, index)
        /\ announced' = Announced(announced, cmds')
        /\ surfaceRoute' = LastSetCurrentRoute(surfaceRoute, cmds')
        /\ last' = [op |-> "changeRoute", index |-> index,
                    slots |-> <<SlotCall(comboItems, index, currentRouteId)>>]
        /\ UNCHANGED <<routes, nextRouteId, comboItems>>

(***************************************************************************)
(* onPointAdded: the map page reports a marker it has created.             *)
(***************************************************************************)
\* a fallback to the default route 0 instead of the current route
PointRouteIdDefault(rs, cur, route_id) ==
    IF route_id \notin DOMAIN rs THEN 0 ELSE route_id

\* the route the point goes to: the event's route, or the current route when
\* the event's route id is not a key of self.routes
PointRouteId(rs, cur, route_id) ==
    IF route_id \notin DOMAIN rs THEN cur ELSE route_id

\* self.routes[route_id]['points'].append((marker_id, lat, lng))
AppendPoint(rs, route_id, marker_id, lat, lng) ==
    [rs EXCEPT ![route_id].points = Append(@, <<marker_id, lat, lng>>)]

onPointAdded ==
    \E coord \in EventCoords, marker_id \in EventMarkerIds, route_id \in EventRouteIds :
        /\ Size(routes, nextRouteId) < MaxSize
        /\ LET lat == coord[1]
               lng == coord[2]
               target == PointRouteId(routes, currentRouteId, route_id)
               \* self.routes[route_id] raises KeyError for a missing key
               raised == target \notin DOMAIN routes
           IN  /\ routes' = IF raised THEN routes
                            ELSE AppendPoint(routes, target, marker_id, lat, lng)
               /\ last' = [op |-> "onPointAdded", lat |-> lat, lng |-> lng,
                           marker_id |-> marker_id, route_id |-> route_id,
                           raised |-> raised]
        /\ cmds' = <<>>
        /\ announced' = Announced(announced, cmds')
        /\ surfaceRoute' = LastSetCurrentRoute(surfaceRoute, cmds')
        /\ UNCHANGED <<currentRouteId, nextRouteId, comboItems, comboIndex>>

(***************************************************************************)
(* onMarkerMoved: the map page reports a dragged marker.                   *)
(***************************************************************************)
\* the positions of the points whose marker id is marker_id
Matches(points, marker_id) == {i \in 1 .. Len(points) : points[i][1] = marker_id}

\* the for loop: the first point whose marker id matches gets the new
\* coordinates, then break
MovePoint(points, marker_id, lat, lng) ==
    LET m == Matches(points, marker_id)
    IN  IF m = {} THEN points
        ELSE LET i == CHOOSE x \in m : \A y \in m : x <= y
             IN  [points EXCEPT ![i] = <<points[i][1], lat, lng>>]

\* an onMarkerMoved with onPointAdded's fallback to the current route
MovedRoutesFallback(rs, cur, lat, lng, marker_id, route_id) ==
    LET target == IF route_id \in DOMAIN rs THEN route_id ELSE cur
    IN  [rs EXCEPT ![target].points = MovePoint(@, marker_id, lat, lng)]

\* self.routes after onMarkerMoved(lat, lng, marker_id, route_id)
MovedRoutes(rs, cur, lat, lng, marker_id, route_id) ==
    IF route_id \in DOMAIN rs
    THEN [rs EXCEPT ![route_id].points = MovePoint(@, marker_id, lat, lng)]
    ELSE rs

onMarkerMoved ==
    \E coord \in EventCoords, marker_id \in EventMarkerIds, route_id \in EventRouteIds :
        /\ routes' = MovedRoutes(routes, currentRouteId, coord[1], coord[2],
                                 marker_id, route_id)
        /\ cmds' = <<>>
        /\ announced' = Announced(announced, cmds')
        /\ surfaceRoute' = LastSetCurrentRoute(surfaceRoute, cmds')
        /\ last' = [op |-> "onMarkerMoved", lat |-> coord[1], lng |-> coord[2],
                    marker_id |-> marker_id, route_id |-> route_id]
        /\ UNCHANGED <<currentRouteId, nextRouteId, comboItems, comboIndex>>

(***************************************************************************)
(* clearCurrentRoute: the "Clear Current Route" button.                    *)
(***************************************************************************)
\* a clear that empties every route
ClearedRoutesAll(rs, cur) == [r \in DOMAIN rs |-> [rs[r] EXCEPT !.points = <<>>]]

\* if self.currentRouteId in self.routes: self.routes[self.currentRouteId]['points'].clear()
ClearedRoutes(rs, cur) ==
    IF cur \in DOMAIN rs THEN [rs EXCEPT ![cur].points = <<>>] ELSE rs

clearCurrentRoute ==
    /\ cmds' = <<JsClearCurrentRoute(currentRouteId)>>
    /\ announced' = Announced(announced, cmds')
    /\ surfaceRoute' = LastSetCurrentRoute(surfaceRoute, cmds')
    /\ routes' = ClearedRoutes(routes, currentRouteId)
    /\ last' = [op |-> "clearCurrentRoute"]
    /\ UNCHANGED <<currentRouteId, nextRouteId, comboItems, comboIndex>>

(***************************************************************************)
(* clearAll: the "Clear All" button.  routeComboBox.clear() on a non-empty *)
(* box moves the current index to -1 and emits currentIndexChanged(-1);    *)
(* addItem on the then empty box moves it to 0 and emits                   *)
(* currentIndexChanged(0).  Both signals run changeRoute.                  *)
(***************************************************************************)
\* a reset that forgets self.routes.clear()
ResetRoutesKept == Store(routes, 0, EmptyRoute(0, colors[1]))

\* self.routes after the reset: the default route under key 0
ResetRoutes == (0 :> EmptyRoute(0, colors[1]))

\* self.nextRouteId after the reset
ResetNextRouteId == 1

clearAll ==
    LET emitsClear == comboIndex # -1
        cur1   == IF emitsClear THEN ChangeRouteId(<<>>, -1, currentRouteId)
                  ELSE currentRouteId
        cmds1  == IF emitsClear THEN ChangeRouteCmds(<<>>, -1) ELSE <<>>
        \* self.currentRouteId = 0
        cur2   == 0
        items  == <<cur2>>
        \* addItem on the empty box
        cur3   == ChangeRouteId(items, 0, cur2)
        cmds3  == ChangeRouteCmds(items, 0)
    IN  /\ routes' = ResetRoutes
        /\ nextRouteId' = ResetNextRouteId
        /\ comboItems' = items
        /\ comboIndex' = 0
        /\ currentRouteId' = cur3
        /\ cmds' = <<JsClearAllRoutes>> \o cmds1 \o cmds3
                   \o <<JsAddRoute(cur3, colors[1]), JsSetCurrentRoute(cur3)>>
        /\ announced' = Announced(announced, cmds')
        /\ surfaceRoute' = LastSetCurrentRoute(surfaceRoute, cmds')
        /\ last' = [op |-> "clearAll",
                    slots |-> (IF emitsClear THEN <<SlotCall(<<>>, -1, currentRouteId)>>
                               ELSE <<>>)
                              \o <<SlotCall(items, 0, cur2)>>]

(***************************************************************************)
(* The YAML import: loadYamlContent and addRouteFromData.                  *)
(***************************************************************************)
\* QComboBox.addItem: the current index after the insertion (an empty box
\* selects its first item)
AddItemIndex(items, index) == IF items = <<>> THEN 0 ELSE index

\* lat = point.get("lat")
PointLat(point) == Get(point, "lat")

\* lng = point.get("lon") or point.get("lng")
PointLng(point) == PyOr(Get(point, "lon"), Get(point, "lng"))

\* marker_id = len(self.routes[route_id]['points'])
ImportMarkerId(points) == Len(points)

\* the for loop over the points of a route record: acc holds the points
\* stored so far and the commands issued so far
RECURSIVE ImportPoints(_, _, _)
ImportPoints(points, route_id, acc) ==
    IF points = <<>> THEN acc
    ELSE LET point == Head(points)
             lat   == PointLat(point)
             lng   == PointLng(point)
             marker_id == ImportMarkerId(acc.points)
         IN  IF lat # None /\ lng # None
             THEN ImportPoints(Tail(points), route_id,
                     [points |-> Append(acc.points, <<marker_id, lat[1], lng[1]>>),
                      cmds   |-> Append(acc.cmds,
                                   JsAddMarkerToRoute(route_id, marker_id, lat[1], lng[1]))])
             ELSE ImportPoints(Tail(points), route_id, acc)

\* color = route_data.get("color", self.colors[route_id % len(self.colors)])
ImportColor(route_data, route_id) == GetOr(route_data, "color", PaletteColor(route_id))

\* points = route_data.get("points", route_data.get("global_route", []))
ImportPointList(route_data) ==
    GetOr(route_data, "points", GetOr(route_data, "global_route", <<>>))

\* an import that keeps the id of the file when there is one
ImportRouteIdOfFile(st, route_data) == GetOr(route_data, "id", st.nextRouteId)

\* route_id = self.nextRouteId (any id in the file is ignored)
ImportRouteId(st, route_data) == st.nextRouteId

\* an import that forgets to advance the counter
ImportNextRouteIdSame(st) == st.nextRouteId

\* self.nextRouteId += 1
ImportNextRouteId(st) == st.nextRouteId + 1

\* addRouteFromData(route_data) applied to the window state st
AddRouteFromData(st, route_data) ==
    LET route_id == ImportRouteId(st, route_data)
        color    == ImportColor(route_data, route_id)
        points   == ImportPointList(route_data)
        index    == AddItemIndex(st.comboItems, st.comboIndex)
        items    == Append(st.comboItems, route_id)
        emits    == index # st.comboIndex
        done     == ImportPoints(points, route_id,
                       [points |-> <<>>,
                        cmds   |-> (IF emits THEN ChangeRouteCmds(items, index) ELSE <<>>)
                                   \o <<JsAddRoute(route_id, color)>>])
    IN  [routes         |-> Store(st.routes, route_id,
                               [id |-> route_id, color |-> color, points |-> done.points]),
         nextRouteId    |-> ImportNextRouteId(st),
         currentRouteId |-> IF emits THEN ChangeRouteId(items, index, st.currentRouteId)
                            ELSE st.currentRouteId,
         comboItems     |-> items,
         comboIndex     |-> index,
         cmds           |-> st.cmds \o done.cmds]

\* for route in routes: self.addRouteFromData(route)
RECURSIVE AddRoutes(_, _)
AddRoutes(st, recs) ==
    IF recs = <<>> THEN st
    ELSE AddRoutes(AddRouteFromData(st, Head(recs)), Tail(recs))

\* the synthetic route record of the older single-route format
LegacyRouteData(st, data) ==
    [id     |-> st.nextRouteId,
     color  |-> PaletteColor(st.nextRouteId),
     points |-> data["global_route"]]

\* yaml.safe_load returns None (the text is empty or holds only comments)
IsNull(content) == "null" \in DOMAIN content

\* `"routes" in data` raises TypeError when data is None; nothing catches it
LoadRaised(content) == content.parses /\ IsNull(content)

\* what loadYamlContent prints
LoadPrinted(content) ==
    IF ~content.parses THEN "Failed to parse YAML"
    ELSE IF IsNull(content) THEN ""
    ELSE IF "routes" \in DOMAIN content.data \/ "global_route" \in DOMAIN content.data
         THEN ""
         ELSE "Invalid YAML format"

\* loadYamlContent(content) applied to the window state st; a content that
\* yaml.safe_load rejects, or data with neither key, changes nothing, and
\* neither does the handler that TypeError ends
LoadYamlContent(st, content) ==
    IF ~content.parses \/ LoadRaised(content) THEN st
    ELSE LET data == content.data
         IN  IF "routes" \in DOMAIN data THEN AddRoutes(st, data["routes"])
             ELSE IF "global_route" \in DOMAIN data
                  THEN AddRouteFromData(st, LegacyRouteData(st, data))
                  ELSE st

\* Point records of the imported documents
p12    == [lat |-> 1, lon |-> 2]
p30    == [lat |-> 3, lng |-> 0]
p10    == [lat |-> 1, lon |-> 0]
p102   == [lat |-> 1, lon |-> 0, lng |-> 2]
pNoLat == [lon |-> 2]

PointLists == {<<>>, <<p12>>, <<p12, p30>>, <<p10, p12>>, <<p102>>, <<pNoLat, p30>>}

RouteRecs ==
    {[id |-> 99, color |-> "black", points |-> <<p12>>],
     [id |-> 0, points |-> <<p30>>],
     [color |-> "black", global_route |-> <<p12>>],
     [id |-> 0]}

\* The imported texts: parses tells whether yaml.safe_load accepts the text,
\* data is what it returns (a mapping, or None for the text marked null)
Contents ==
    {[parses |-> FALSE]}
    \cup {[parses |-> TRUE, null |-> TRUE, data |-> None]}
    \cup {[parses |-> TRUE, data |-> [foo |-> <<>>]]}
    \cup {[parses |-> TRUE, data |-> [global_route |-> pl]] : pl \in PointLists}
    \cup {[parses |-> TRUE, data |-> [routes |-> <<r>>]] : r \in RouteRecs}
    \cup {[parses |-> TRUE, data |-> [routes |-> <<>>]],
          [parses |-> TRUE,
           data |-> [routes |-> <<[id |-> 0],
                                  [id |-> 99, color |-> "black", points |-> <<p12>>]>>]]}

loadYamlContent ==
    \E content \in Contents :
        LET st == [routes |-> routes, nextRouteId |-> nextRouteId,
                   currentRouteId |-> currentRouteId, comboItems |-> comboItems,
                   comboIndex |-> comboIndex, cmds |-> <<>>]
            res == LoadYamlContent(st, content)
        IN  /\ Size(res.routes, res.nextRouteId) <= MaxSize
            /\ routes' = res.routes
            /\ nextRouteId' = res.nextRouteId
            /\ currentRouteId' = res.currentRouteId
            /\ comboItems' = res.comboItems
            /\ comboIndex' = res.comboIndex
            /\ cmds' = res.cmds
            /\ announced' = Announced(announced, cmds')
            /\ surfaceRoute' = LastSetCurrentRoute(surfaceRoute, cmds')
            /\ last' = [op |-> "loadYamlContent", content |-> content,
                        printed |-> LoadPrinted(content),
                        raised |-> LoadRaised(content)]

(***************************************************************************)
(* saveYaml: the "Save YAML" button, and loadYamlFromFile on the file just *)
(* saved.  The file is outside the window, so saveYaml changes no          *)
(* attribute; the document it wrote is kept in last, and loadYamlFromFile  *)
(* reads it back while it is the last thing that happened.                 *)
(***************************************************************************)
\* the keys of a dict in iteration order (insertion order; route ids are
\* inserted in increasing order)
RECURSIVE KeysInOrder(_)
KeysInOrder(ids) ==
    IF ids = {} THEN <<>>
    ELSE LET i == CHOOSE x \in ids : \A y \in ids : x <= y
         IN  <<i>> \o KeysInOrder(ids \ {i})

\* points_list = [{"lat": lat, "lon": lng} for (marker_id, lat, lng) in route['points']]
SavePoints(points) == [k \in 1 .. Len(points) |-> [lat |-> points[k][2], lon |-> points[k][3]]]

\* {"id": route_id, "color": route['color'], "points": points_list}
SaveRoute(route_id, route) ==
    [id |-> route_id, color |-> route.color, points |-> SavePoints(route.points)]

\* data = {"routes": [...]}, one record per route
SaveYamlData(rs) ==
    LET keys == KeysInOrder(DOMAIN rs)
    IN  [routes |-> [k \in 1 .. Len(keys) |-> SaveRoute(keys[k], rs[keys[k]])]]

saveYaml ==
    /\ DOMAIN routes # {}
    /\ last' = [op |-> "saveYaml", data |-> SaveYamlData(routes)]
    /\ cmds' = <<>>
    /\ announced' = Announced(announced, cmds')
    /\ surfaceRoute' = LastSetCurrentRoute(surfaceRoute, cmds')
    /\ UNCHANGED <<routes, currentRouteId, nextRouteId, comboItems, comboIndex>>

\* yaml.safe_load of the text yaml.dump wrote for data
SavedContent(data) == [parses |-> TRUE, data |-> data]

loadYamlFromFile ==
    /\ last.op = "saveYaml"
    /\ LET content == SavedContent(last.data)
           st  == [routes |-> routes, nextRouteId |-> nextRouteId,
                   currentRouteId |-> currentRouteId, comboItems |-> comboItems,
                   comboIndex |-> comboIndex, cmds |-> <<>>]
           res == LoadYamlContent(st, content)
       IN  /\ Size(res.routes, res.nextRouteId) <= MaxSize
           /\ routes' = res.routes
           /\ nextRouteId' = res.nextRouteId
           /\ currentRouteId' = res.currentRouteId
           /\ comboItems' = res.comboItems
           /\ comboIndex' = res.comboIndex
           /\ cmds' = res.cmds
           /\ announced' = Announced(announced, cmds')
           /\ surfaceRoute' = LastSetCurrentRoute(surfaceRoute, cmds')
           /\ last' = [op |-> "loadYamlContent", content |-> content,
                       printed |-> LoadPrinted(content),
                       raised |-> LoadRaised(content)]

Next ==
    \/ newRoute
    \/ changeRoute
    \/ onPointAdded
    \/ onMarkerMoved
    \/ clearCurrentRoute
    \/ clearAll
    \/ loadYamlContent
    \/ saveYaml
    \/ loadYamlFromFile

Spec == Init /\ [][Next]_vars

(***************************************************************************)
(* The claims.                                                             *)
(***************************************************************************)

\* C1: in every reachable state the active route id (currentRouteId) is a
\* key of routes.
C1_ActiveRouteIsKey == currentRouteId \in DOMAIN routes

\* the user has switched back to route 1 of three routes
C1_Witness ==
    /\ last.op = "changeRoute"
    /\ DOMAIN routes = {0, 1, 2}
    /\ currentRouteId = 1

\* C2: in every reachable state nextRouteId is strictly greater than every
\* key of routes.
C2_NextAboveKeys == \A id \in DOMAIN routes : id < nextRouteId

\* an import has just allocated the third route
C2_Witness ==
    /\ last.op = "loadYamlContent"
    /\ DOMAIN routes = {0, 1, 2}
    /\ nextRouteId = 3

\* C3: after clearAll the store holds exactly one route, with id 0, the first
\* palette color and no points, nextRouteId is 1 and the active route is 0.
C3_ClearAllResets ==
    last.op = "clearAll" =>
        /\ DOMAIN routes = {0}
        /\ routes[0].id = 0
        /\ routes[0].color = "red"
        /\ routes[0].points = <<>>
        /\ nextRouteId = 1
        /\ currentRouteId = 0

\* clearAll has run
C3_Witness ==
    /\ last.op = "clearAll"
    /\ DOMAIN routes = {0}
    /\ nextRouteId = 1

\* the number of route records an imported text holds
NumRecords(content) ==
    IF ~content.parses THEN 0
    ELSE IF "routes" \in DOMAIN content.data THEN Len(content.data["routes"])
    ELSE IF "global_route" \in DOMAIN content.data THEN 1
    ELSE 0

\* C4: in every step other than clearAll, nextRouteId does not decrease, no
\* key of routes disappears and the new keys are exactly the values the
\* counter has passed; newRoute passes one value and an import one value per
\* route record.  clearAll returns the counter to 1.
C4_AllocatorMonotonic ==
    [][IF last'.op = "clearAll"
       THEN nextRouteId' = 1
       ELSE /\ nextRouteId' >= nextRouteId
            /\ DOMAIN routes \subseteq DOMAIN routes'
            /\ DOMAIN routes' \ DOMAIN routes = nextRouteId .. (nextRouteId' - 1)
            /\ last'.op = "newRoute" => nextRouteId' = nextRouteId + 1
            /\ last'.op = "loadYamlContent" =>
                   nextRouteId' = nextRouteId + NumRecords(last'.content)
            /\ last'.op \notin {"newRoute", "loadYamlContent"} =>
                   nextRouteId' = nextRouteId]_vars

\* newRoute has allocated the third route, with id 2
C4_Witness ==
    /\ last.op = "newRoute"
    /\ nextRouteId = 3
    /\ currentRouteId = 2
    /\ DOMAIN routes = {0, 1, 2}


\* C5: every onPointAdded appends, to one route, a point whose marker id is
\* the number of points that route held before (so the marker ids of a route
\* filled from empty are 0, 1, 2, ...), whatever marker id the event carries.
C5_SequentialMarkerIds ==
    [][last'.op = "onPointAdded" =>
          \E r \in DOMAIN routes :
              routes'[r].points =
                  Append(routes[r].points,
                         <<Len(routes[r].points), last'.lat, last'.lng>>)]_vars

\* C6: in every reachable state no two points of a route have the same
\* marker id.
C6_UniqueMarkerIds ==
    \A r \in DOMAIN routes :
        \A i, j \in 1 .. Len(routes[r].points) :
            i # j => routes[r].points[i][1] # routes[r].points[j][1]

\* C7: an onPointAdded whose route id is not a key of routes does not fail
\* and appends the point to the end of the current route; the other routes,
\* the current route's id and color, currentRouteId and nextRouteId are
\* unchanged.
C7_UnknownRouteFallsBack ==
    [][(last'.op = "onPointAdded" /\ last'.route_id \notin DOMAIN routes) =>
          /\ ~last'.raised
          /\ currentRouteId \in DOMAIN routes
          /\ DOMAIN routes' = DOMAIN routes
          /\ LET old == routes[currentRouteId].points
                 new == routes'[currentRouteId].points
             IN  /\ Len(new) = Len(old) + 1
                 /\ SubSeq(new, 1, Len(old)) = old
                 /\ new[Len(new)][2] = last'.lat
                 /\ new[Len(new)][3] = last'.lng
          /\ routes'[currentRouteId].id = routes[currentRouteId].id
          /\ routes'[currentRouteId].color = routes[currentRouteId].color
          /\ \A r \in DOMAIN routes \ {currentRouteId} : routes'[r] = routes[r]
          /\ currentRouteId' = currentRouteId
          /\ nextRouteId' = nextRouteId]_vars

\* an event naming route 99 has put its point on the current route 1, after
\* the point that route already held
C7_Witness ==
    /\ last.op = "onPointAdded"
    /\ last.route_id = 99
    /\ ~last.raised
    /\ currentRouteId = 1
    /\ Len(routes[1].points) = 2
    /\ routes[1].points[2][2] = last.lat
    /\ routes[1].points[2][3] = last.lng
    /\ routes[0].points = <<>>

\* C8: onMarkerMoved changes no route's point count, order of points or
\* marker ids.  With a known route id and a point of that marker id, it
\* rewrites the coordinates of one such point and nothing else; with an
\* unknown route id or no such point it changes nothing (no fallback to the
\* current route).  The set of routes, their ids and colors, currentRouteId
\* and nextRouteId are unchanged.
C8_MoveRewritesInPlace ==
    [][last'.op = "onMarkerMoved" =>
          LET route_id  == last'.route_id
              marker_id == last'.marker_id
              known     == /\ route_id \in DOMAIN routes
                           /\ \E i \in 1 .. Len(routes[route_id].points) :
                                  routes[route_id].points[i][1] = marker_id
          IN  /\ DOMAIN routes' = DOMAIN routes
              /\ currentRouteId' = currentRouteId
              /\ nextRouteId' = nextRouteId
              /\ \A r \in DOMAIN routes :
                     /\ routes'[r].id = routes[r].id
                     /\ routes'[r].color = routes[r].color
                     /\ Len(routes'[r].points) = Len(routes[r].points)
                     /\ \A i \in 1 .. Len(routes[r].points) :
                            routes'[r].points[i][1] = routes[r].points[i][1]
              /\ IF known
                 THEN /\ \E i \in 1 .. Len(routes[route_id].points) :
                             /\ routes[route_id].points[i][1] = marker_id
                             /\ routes'[route_id].points =
                                    [routes[route_id].points EXCEPT
                                        ![i] = <<marker_id, last'.lat, last'.lng>>]
                      /\ \A r \in DOMAIN routes \ {route_id} : routes'[r] = routes[r]
                 ELSE routes' = routes]_vars

\* marker 1, the second point of route 0, has been moved to (3, 0)
C8_Witness ==
    /\ last.op = "onMarkerMoved"
    /\ last.route_id = 0
    /\ last.marker_id = 1
    /\ last.lat = 3
    /\ last.lng = 0
    /\ Len(routes[0].points) = 2
    /\ routes[0].points[1][1] = 0
    /\ routes[0].points[2] = <<1, 3, 0>>


\* C9: importing a multi-route document ignores the id of every record: the
\* k-th record becomes the route whose id is the k-th value of the counter
\* (with the record's color when it has one), nextRouteId advances by the
\* number of records, no other key appears and no route that existed before
\* is changed.
C9_ImportIgnoresFileIds ==
    [][(/\ last'.op = "loadYamlContent"
        /\ last'.content.parses
        /\ "routes" \in DOMAIN last'.content.data) =>
          LET recs == last'.content.data["routes"]
              n    == Len(recs)
          IN  /\ nextRouteId' = nextRouteId + n
              /\ DOMAIN routes' = DOMAIN routes \cup (nextRouteId .. (nextRouteId + n - 1))
              /\ \A r \in DOMAIN routes : routes'[r] = routes[r]
              /\ \A k \in 1 .. n :
                     LET new == routes'[nextRouteId + k - 1]
                     IN  /\ new.id = nextRouteId + k - 1
                         /\ "color" \in DOMAIN recs[k] => new.color = recs[k].color
                         /\ ("points" \notin DOMAIN recs[k]
                               /\ "global_route" \notin DOMAIN recs[k])
                              => new.points = <<>>]_vars

\* a document of two records, with ids 0 and 99, imported into a store whose
\* counter was 1: the records became routes 1 and 2 and route 0 kept its point
C9_Witness ==
    /\ last.op = "loadYamlContent"
    /\ last.content.parses
    /\ "routes" \in DOMAIN last.content.data
    /\ Len(last.content.data["routes"]) = 2
    /\ last.content.data["routes"][1].id = 0
    /\ last.content.data["routes"][2].id = 99
    /\ DOMAIN routes = {0, 1, 2}
    /\ nextRouteId = 3
    /\ routes[0].color = "red"
    /\ routes[1].color = "blue"
    /\ routes[1].points = <<>>
    /\ routes[2].color = "black"
    /\ routes[2].points = <<<<0, 1, 2>>>>

\* the longitude of a point record: lon when present, else lng
RecordLng(point) == IF "lon" \in DOMAIN point THEN point.lon ELSE point.lng

\* a point record with lat and with lon or lng
ValidRecord(point) ==
    /\ "lat" \in DOMAIN point
    /\ ("lon" \in DOMAIN point \/ "lng" \in DOMAIN point)

\* C10: importing a legacy document whose n point records are all valid
\* creates exactly one route, with the counter's value as id and the palette
\* color of that id, whose points are the n records in order with marker ids
\* 0 .. n-1.
C10_LegacyImport ==
    [][(/\ last'.op = "loadYamlContent"
        /\ last'.content.parses
        /\ "routes" \notin DOMAIN last'.content.data
        /\ "global_route" \in DOMAIN last'.content.data
        /\ \A k \in 1 .. Len(last'.content.data["global_route"]) :
               ValidRecord(last'.content.data["global_route"][k])) =>
          LET recs == last'.content.data["global_route"]
          IN  /\ nextRouteId' = nextRouteId + 1
              /\ DOMAIN routes' = DOMAIN routes \cup {nextRouteId}
              /\ \A r \in DOMAIN routes : routes'[r] = routes[r]
              /\ routes'[nextRouteId].id = nextRouteId
              /\ routes'[nextRouteId].color = colors[(nextRouteId % 7) + 1]
              /\ routes'[nextRouteId].points =
                     [k \in 1 .. Len(recs) |-> <<k - 1, recs[k].lat, RecordLng(recs[k])>>]]_vars


\* C11: importing a text that does not parse, or a document with neither
\* top-level key routes nor global_route, is reported as a parse failure and
\* changes nothing: routes, currentRouteId and nextRouteId are unchanged and
\* no command is issued.
C11_BadDocumentReported ==
    [][(/\ last'.op = "loadYamlContent"
        /\ \/ ~last'.content.parses
           \/ /\ "routes" \notin DOMAIN last'.content.data
              /\ "global_route" \notin DOMAIN last'.content.data) =>
          /\ last'.printed \in {"Failed to parse YAML", "Invalid YAML format"}
          /\ ~last'.raised
          /\ routes' = routes
          /\ currentRouteId' = currentRouteId
          /\ nextRouteId' = nextRouteId
          /\ cmds' = <<>>]_vars


\* the coordinates (lat, lng) of a sequence of points
Coords(points) == [k \in 1 .. Len(points) |-> <<points[k][2], points[k][3]>>]

\* C12: saving the store and loading the saved file creates one new route per
\* saved route, in the same order, each with the color and the sequence of
\* point coordinates of the route it was saved from.
C12_RoundTrip ==
    [][(/\ last.op = "saveYaml"
        /\ last'.op = "loadYamlContent"
        /\ last'.content = SavedContent(last.data)) =>
          LET keys == KeysInOrder(DOMAIN routes)
              n    == Len(keys)
          IN  /\ nextRouteId' = nextRouteId + n
              /\ DOMAIN routes' = DOMAIN routes \cup (nextRouteId .. (nextRouteId + n - 1))
              /\ \A k \in 1 .. n :
                     LET old == routes[keys[k]]
                         new == routes'[nextRouteId + k - 1]
                     IN  /\ new.color = old.color
                         /\ Coords(new.points) = Coords(old.points)]_vars


\* the points a list of point records stands for: the records with lat and
\* with lon or lng, in order, numbered from 0, the longitude being lon when
\* lon is present and lng otherwise
RECURSIVE ExpectedPoints(_, _)
ExpectedPoints(recs, acc) ==
    IF recs = <<>> THEN acc
    ELSE ExpectedPoints(Tail(recs),
             IF ValidRecord(Head(recs))
             THEN Append(acc, <<Len(acc), Head(recs).lat, RecordLng(Head(recs))>>)
             ELSE acc)

\* the point records of a route record
RecordPointList(rec) ==
    IF "points" \in DOMAIN rec THEN rec.points
    ELSE IF "global_route" \in DOMAIN rec THEN rec.global_route
    ELSE <<>>

\* the route records an imported document stands for
DocumentRecords(data) ==
    IF "routes" \in DOMAIN data THEN data["routes"]
    ELSE IF "global_route" \in DOMAIN data THEN <<[points |-> data["global_route"]]>>
    ELSE <<>>

\* C13: the points of every imported route are the point records that have
\* lat and have lon or lng, in order and with consecutive marker ids, the
\* longitude taken from lon whenever lon is present (also when it is 0) and
\* from lng only when lon is absent; the other records are skipped.
C13_FieldResolution ==
    [][(last'.op = "loadYamlContent" /\ last'.content.parses) =>
          LET recs == DocumentRecords(last'.content.data)
          IN  \A k \in 1 .. Len(recs) :
                  /\ (nextRouteId + k - 1) \in DOMAIN routes'
                  /\ routes'[nextRouteId + k - 1].points =
                         ExpectedPoints(RecordPointList(recs[k]), <<>>)]_vars


\* the runs of changeRoute a handler made, l being what last records of it
SlotsOf(l) == IF "slots" \in DOMAIN l THEN l.slots ELSE <<>>

\* C14 as stated: a changeRoute whose index names no route fails with an
\* error (NotFoundError) reported to the caller.
C14_UnknownRouteRaises ==
    \A k \in 1 .. Len(SlotsOf(last)) : ~SlotsOf(last)[k].known => SlotsOf(last)[k].raised

\* C14 as amended: a changeRoute whose index names no route raises nothing
\* and leaves currentRouteId unchanged; the user's choice of a selector item
\* sets currentRouteId to the route id of that item, a key of routes, and
\* changes neither routes nor nextRouteId.
C14_ChangeRoute ==
    [][/\ \A k \in 1 .. Len(SlotsOf(last')) :
              /\ ~SlotsOf(last')[k].raised
              /\ ~SlotsOf(last')[k].known => SlotsOf(last')[k].kept
       /\ last'.op = "changeRoute" =>
              /\ last'.slots[1].known
              /\ currentRouteId' = comboItems[last'.index + 1]
              /\ currentRouteId' \in DOMAIN routes
              /\ routes' = routes
              /\ nextRouteId' = nextRouteId]_vars

\* clearAll has run changeRoute(-1), which names no route: nothing was raised
\* and currentRouteId kept its value
C14_Witness ==
    /\ last.op = "clearAll"
    /\ Len(last.slots) = 2
    /\ last.slots[1].index = -1
    /\ ~last.slots[1].known
    /\ last.slots[1].kept
    /\ ~last.slots[1].raised


\* C15: newRoute inserts an empty route whose id is the former nextRouteId
\* and whose color is the palette color of that id (id mod 7), increments
\* nextRouteId, makes the new route the current route and leaves every route
\* that existed unchanged.
C15_NewRoute ==
    [][last'.op = "newRoute" =>
          /\ nextRouteId \notin DOMAIN routes
          /\ DOMAIN routes' = DOMAIN routes \cup {nextRouteId}
          /\ routes'[nextRouteId] =
                 [id |-> nextRouteId,
                  color |-> <<"red", "blue", "green", "orange", "purple", "cyan",
                              "magenta">>[(nextRouteId % 7) + 1],
                  points |-> <<>>]
          /\ nextRouteId' = nextRouteId + 1
          /\ currentRouteId' = nextRouteId
          /\ \A r \in DOMAIN routes : routes'[r] = routes[r]]_vars

\* newRoute has created route 2, green and empty, beside route 1 that holds
\* a point, and made it the current route
C15_Witness ==
    /\ last.op = "newRoute"
    /\ DOMAIN routes = {0, 1, 2}
    /\ routes[2] = [id |-> 2, color |-> "green", points |-> <<>>]
    /\ Len(routes[1].points) = 1
    /\ currentRouteId = 2
    /\ nextRouteId = 3


\* the store after onPointAdded for each point of pts in turn, the k-th event
\* naming route_id and carrying marker id k-1
RECURSIVE AddPointsTo(_, _, _, _)
AddPointsTo(rs, cur, route_id, pts) ==
    IF pts = <<>> THEN rs
    ELSE LET p == Head(pts)
         IN  AddPointsTo(AppendPoint(rs, PointRouteId(rs, cur, route_id), p[1], p[2], p[3]),
                         cur, route_id, Tail(pts))

\* C16: importing one route record leaves the store as newRoute (with the
\* record's color when it has one) followed by one onPointAdded per
\* coordinate pair of the record does: the same routes, the same nextRouteId
\* and the new route as the current route.
C16_ImportAsCreateAndAdd ==
    [][(/\ last'.op = "loadYamlContent"
        /\ last'.content.parses
        /\ Len(DocumentRecords(last'.content.data)) = 1) =>
          LET rec     == DocumentRecords(last'.content.data)[1]
              new     == nextRouteId
              color   == IF "color" \in DOMAIN rec THEN rec.color ELSE PaletteColor(new)
              items   == Append(comboItems, new)
              created == NewRouteRoutes(routes, new, color)
              cur     == ChangeRouteId(items, Len(items) - 1, currentRouteId)
              pts     == ExpectedPoints(RecordPointList(rec), <<>>)
          IN  /\ routes' = AddPointsTo(created, cur, new, pts)
              /\ nextRouteId' = nextRouteId + 1
              /\ currentRouteId' = cur]_vars


\* C17: clearCurrentRoute empties the points of the current route and keeps
\* its id and color; the set of route ids, every other route, currentRouteId
\* and nextRouteId are unchanged.
C17_ClearCurrentRoute ==
    [][last'.op = "clearCurrentRoute" =>
          /\ DOMAIN routes' = DOMAIN routes
          /\ currentRouteId \in DOMAIN routes
          /\ routes'[currentRouteId].points = <<>>
          /\ routes'[currentRouteId].id = routes[currentRouteId].id
          /\ routes'[currentRouteId].color = routes[currentRouteId].color
          /\ \A r \in DOMAIN routes \ {currentRouteId} : routes'[r] = routes[r]
          /\ currentRouteId' = currentRouteId
          /\ nextRouteId' = nextRouteId]_vars

\* the current route 1 has been cleared while route 0 keeps its point
C17_Witness ==
    /\ last.op = "clearCurrentRoute"
    /\ currentRouteId = 1
    /\ routes[1].points = <<>>
    /\ routes[1].color = "black"
    /\ Len(routes[0].points) = 1
    /\ nextRouteId = 2


\* every addMarkerToRoute call of cs names a route that an addRoute call has
\* announced before it and after the last clearAllRoutes call
RECURSIVE MarkersAnnounced(_, _)
MarkersAnnounced(ann, cs) ==
    IF cs = <<>> THEN TRUE
    ELSE LET c == Head(cs)
         IN  /\ c.cmd = "addMarkerToRoute" =>
                    \E k \in 1 .. Len(ann) : ann[k][1] = c.route_id
             /\ MarkersAnnounced(Announce(ann, c), Tail(cs))

\* one addRoute call for the stored route r, then one addMarkerToRoute call
\* for each of its stored points, in stored order
StoredRouteCmds(rs, r) ==
    <<[cmd |-> "addRoute", route_id |-> r, color |-> rs[r].color]>>
    \o [k \in 1 .. Len(rs[r].points) |->
           [cmd |-> "addMarkerToRoute", route_id |-> r,
            marker_id |-> rs[r].points[k][1],
            lat |-> rs[r].points[k][2], lng |-> rs[r].points[k][3]]]

\* StoredRouteCmds of the routes from .. to, in this order
RECURSIVE StoredRoutesCmds(_, _, _)
StoredRoutesCmds(rs, from, to) ==
    IF from > to THEN <<>>
    ELSE StoredRouteCmds(rs, from) \o StoredRoutesCmds(rs, from + 1, to)

\* C18: in the calls of every handler, each addMarkerToRoute names a route
\* announced by an addRoute call before it and since the last clearAllRoutes
\* call; and an import issues, for each route record (so for the one record of
\* a one-record document), exactly one addRoute call followed by exactly one
\* addMarkerToRoute call for each point it stored, in stored order, with the
\* stored marker id and coordinates, and no other call.
C18_AnnouncedBeforeMarkers ==
    [][/\ MarkersAnnounced(announced, cmds')
       /\ (last'.op = "loadYamlContent" /\ last'.content.parses) =>
             /\ nextRouteId' - nextRouteId = Len(DocumentRecords(last'.content.data))
             /\ cmds' = StoredRoutesCmds(routes', nextRouteId, nextRouteId' - 1)]_vars

\* a one-record import has stored two points: an addRoute call and the two
\* addMarkerToRoute calls were issued, the second for the stored point (1, 3, 0)
C18_Witness ==
    /\ last.op = "loadYamlContent"
    /\ last.content.parses
    /\ Len(DocumentRecords(last.content.data)) = 1
    /\ Len(cmds) = 3
    /\ cmds[1].cmd = "addRoute"
    /\ cmds[3] = [cmd |-> "addMarkerToRoute", route_id |-> cmds[1].route_id,
                  marker_id |-> 1, lat |-> 3, lng |-> 0]

\* C19: after every handler the argument of the last setCurrentRoute call is
\* currentRouteId, also after the changeRoute slot calls inside newRoute and
\* clearAll.
C19_SurfaceRouteIsCurrent == surfaceRoute = currentRouteId

\* the user has switched from route 2 back to route 1 of three routes
C19_Witness ==
    /\ last.op = "changeRoute"
    /\ DOMAIN routes = {0, 1, 2}
    /\ currentRouteId = 1
    /\ surfaceRoute = 1

\* C20: after every handler the <<route_id, color>> pairs of the addRoute
\* calls issued since the last clearAllRoutes call (or since construction)
\* are exactly the <<id, color>> pairs of routes, and no route id was
\* announced twice.
C20_AnnouncedIsStore ==
    /\ {announced[k] : k \in 1 .. Len(announced)}
          = {<<routes[r].id, routes[r].color>> : r \in DOMAIN routes}
    /\ \A j, k \in 1 .. Len(announced) :
          announced[j][1] = announced[k][1] => j = k

\* three routes are announced and stored, the third one a black route that
\* an import has just added with its point
C20_Witness ==
    /\ last.op = "loadYamlContent"
    /\ Len(announced) = 3
    /\ announced[2] = <<1, "blue">>
    /\ announced[3] = <<2, "black">>
    /\ Len(routes[2].points) = 1


====
